---- MODULE Spec2Model ----
(***************************************************************************)
(* A model of stagit.c: the static page generator that renders the log,    *)
(* the commit pages, the file tree, the refs page and the Atom feed of a   *)
(* git repository.                                                         *)
(*                                                                         *)
(* C strings are sequences of one-character strings ("a", "<", ...); the   *)
(* token NUL stands for the byte 0.  Multi-character tokens are used for   *)
(* what the program handles as a unit: an entity that xmlencode emitted    *)
(* ("&lt;"), a "../" step of relpath, the ".git" suffix, a path separator. *)
(* A file is a sequence of chunks, one per fputs/fprintf/xmlencode call    *)
(* argument, each recording where its text came from.                      *)
(***************************************************************************)
EXTENDS Integers, Sequences, FiniteSets, TLC

(***************************************************************************)
(* Bounds of the model.                                                    *)
(***************************************************************************)
\* number of commits on the first-parent chain from HEAD (1 is HEAD)
MaxCommits == 2
\* number of references the reference iterator yields at most
MaxRefs == 2
\* number of times the program is run on the same output directory
MaxRuns == 2
\* number of failures of the environment in a behaviour: a failing output
\* operation, a kill of the process, a tree entry or iterator that fails
MaxFaults == 1
\* number of bytes of the strings xmlencode is called on alone
MaxStr == 4

(***************************************************************************)
(* Strings.                                                                *)
(***************************************************************************)
NUL == "NUL"

\* strlen(3): the number of bytes before the first NUL
RECURSIVE strlenFrom(_, _)
strlenFrom(s, i) ==
    IF i > Len(s) \/ s[i] = NUL THEN i - 1 ELSE strlenFrom(s, i + 1)

strlen(s) == strlenFrom(s, 1)

\* what fputs / printf("%s") emit of a C string: the bytes before the NUL
CStr(s) == SubSeq(s, 1, strlen(s))

\* an xmlencode that lets & through
Entity_noamp(c) ==
    CASE c = "<"  -> "&lt;"
      [] c = ">"  -> "&gt;"
      [] c = "'"  -> "&apos;"
      [] c = "\"" -> "&quot;"
      [] OTHER    -> c

\* xmlencode(): the switch of lines 133-140
Entity(c) ==
    CASE c = "<"  -> "&lt;"
      [] c = ">"  -> "&gt;"
      [] c = "'"  -> "&apos;"
      [] c = "&"  -> "&amp;"
      [] c = "\"" -> "&quot;"
      [] OTHER    -> c

\* xmlencode(): the loop "for (i = 0; *s && i < len; s++, i++)"; i is 1-based
RECURSIVE xmlencodeFrom(_, _, _)
xmlencodeFrom(s, len, i) ==
    IF i > Len(s) \/ s[i] = NUL \/ ~(i - 1 < len)
    THEN <<>>
    ELSE <<Entity(s[i])>> \o xmlencodeFrom(s, len, i + 1)

xmlencode(s, len) == xmlencodeFrom(s, len, 1)

(***************************************************************************)
(* Chunks of output.  t is the call that wrote the chunk: "lit" a literal  *)
(* of the program text, "enc" xmlencode(), "raw" a %s or %zu conversion of *)
(* fprintf, "rel" the %s conversion that prints relpath.  f names the      *)
(* datum printed.                                                          *)
(***************************************************************************)
Lit(s) == [t |-> "lit", f |-> "markup", s |-> <<s>>]

Enc(f, s, len) == [t |-> "enc", f |-> f, s |-> xmlencode(s, len)]

Raw(f, s) == [t |-> "raw", f |-> f, s |-> CStr(s)]

Rel(rp) == [t |-> "rel", f |-> "relpath", s |-> rp]

(***************************************************************************)
(* The state.                                                              *)
(***************************************************************************)
VARIABLES
    repodir,    \* argv[1]
    text,       \* the text the repository holds in its free-text fields
    obj,        \* the object database: the state of each commit object
    reflist,    \* the references, in the order git_reference_next yields them
    lookups,    \* commitinfo_getbyoid alone: what its lookups give
    snapshot,   \* commitinfo_getbyoid alone: what it returned
    enclen,     \* xmlencode alone: its argument len
    encout,     \* xmlencode alone: the bytes it wrote to fp
    pc,         \* where the process is in main()
    status,     \* the exit status of the process, once pc = "exited"
    run,        \* how many times the program was started on this directory
    relpath,    \* static const char *relpath: a sequence of "../"
    files,      \* the output directory: path -> content of the file
    dirs,       \* the output directory: the directories that exist
    wi,         \* writelog: how many ids git_revwalk_next has returned
    fi,         \* writefilestree: how many tree entries were visited
    fret,       \* writefilestree: its return value so far
    refs,       \* writerefs: the sorted array refs[]
    rj, ri,     \* writerefs: the loop variables j and i
    count,      \* writerefs: the rows of the current table
    rrows,      \* writerefs: the references that got a row, in order
    rfailed,    \* writerefs: the references a resolution step failed for,
                \* each with the number of rows written before it
    entry,      \* relpath as it was when the running writer was called
    returns,    \* the writers that returned: [fn, entry, exit, ret]
    iofail,     \* an output operation of this run failed
    nfault,     \* the failures of the environment so far
    files0      \* the output directory as it was when this run started

inputs == <<repodir, text, obj, reflist, lookups, snapshot, enclen, encout>>

refsvars == <<refs, rj, ri, count, rrows, rfailed>>

vars == <<repodir, text, obj, reflist, lookups, snapshot, enclen, encout, pc, status, run, relpath, files, dirs,
          wi, fi, fret, refs, rj, ri, count, rrows, rfailed, entry, returns,
          iofail, nfault, files0>>

(***************************************************************************)
(* The repository and its side-channel files.                              *)
(***************************************************************************)
\* the commits of the first-parent chain, as git_revwalk_next yields them
Chain == 1 .. MaxCommits

\* git_oid_tostr(): the hex form of an id; the NULL id gives ""
oidstr(id) == IF id = 0 THEN <<>> ELSE <<ToString(id)>>

\* the inputs: the repository directory and the text of the fields of the
\* repository
Inputs ==
    { [repodir |-> <<"r", ".git">>, text |-> <<"a">>],
      [repodir |-> <<"d", "/", "a", "&", "b">>, text |-> <<"a", "<", "b", ">">>] }

\* the states of a commit object in the object database: present, absent,
\* present without its tree
ObjStates == {"ok", "missing", "notree"}

\* the object databases: at most one commit of the chain is damaged
ObjDbs ==
    { o \in [Chain -> ObjStates] :
        \A c, d \in Chain : o[c] # "ok" /\ o[d] # "ok" => c = d }

\* xbasename(): the last component of the path
RECURSIVE xbasename(_)
xbasename(path) ==
    IF \E i \in 1 .. Len(path) : path[i] = "/"
    THEN xbasename(Tail(path))
    ELSE path

\* main(): name = xbasename(repodir)
name == xbasename(repodir)

\* main(): "strip .git suffix"
stripped_name ==
    IF Len(name) > 0 /\ name[Len(name)] = ".git"
    THEN SubSeq(name, 1, Len(name) - 1)
    ELSE name

\* main(): the first line of the description file
description == text

\* main(): the first line of the url file, without its newline
cloneurl == text

\* a commit's author, summary and message
Author(c) == [name |-> text, email |-> text]

Summary(c) == text

Msg(c) == text

\* the tree of HEAD: git_tree_entry_byindex order; kind is the object type
HeadTree ==
    << [kind |-> "blob", name |-> <<"README">>, binary |-> FALSE,
        content |-> text, sub |-> <<>>],
       [kind |-> "tree", name |-> <<"d">>, binary |-> FALSE, content |-> <<>>,
        sub |-> << [kind |-> "blob", name |-> <<"a", "&">>, binary |-> FALSE,
                    content |-> text, sub |-> <<>>] >>],
       [kind |-> "blob", name |-> <<"bin">>, binary |-> TRUE,
        content |-> <<"x", NUL, "<">>, sub |-> <<>>],
       [kind |-> "commit", name |-> <<"m">>, binary |-> FALSE,
        content |-> <<>>, sub |-> <<>>] >>

\* main(): git_revparse_single(HEAD:README), git_revparse_single(HEAD:LICENSE)
hasreadme ==
    obj[1] = "ok" /\ \E i \in 1 .. Len(HeadTree) : HeadTree[i].name = <<"README">>

haslicense ==
    obj[1] = "ok" /\ \E i \in 1 .. Len(HeadTree) : HeadTree[i].name = <<"LICENSE">>

\* the id the commit records as its first parent; 0 when it records none
ParentId(c) == IF c < MaxCommits THEN c + 1 ELSE 0

\* what the lookups of commitinfo_getbyoid give for commit c: the object
\* database holds the commits of the chain in the states obj
Lk(c) ==
    [commit      |-> obj[c] # "missing",
     tree        |-> obj[c] = "ok",
     parentid    |-> ParentId(c),
     parent      |-> c < MaxCommits /\ obj[c + 1] # "missing",
     parent_tree |-> c < MaxCommits /\ obj[c + 1] = "ok",
     diff        |-> TRUE,
     stats       |-> TRUE]

\* git_diff_tree_to_tree(): the deltas of a commit against the tree of its
\* parent, or against the empty tree when parent_tree is NULL
Diff(c, base) ==
    IF base = "empty"
    THEN << [old |-> <<"README">>, new |-> <<"README">>, binary |-> FALSE,
             hunks |-> << [header |-> <<"@", "@", " ", "+", "1">>,
                           lines |-> << [old_lineno |-> -1, new_lineno |-> 1,
                                         content |-> text] >>] >>],
            [old |-> <<"d", "/", "a", "&">>, new |-> <<"d", "/", "a", "&">>,
             binary |-> FALSE,
             hunks |-> << [header |-> <<"@", "@", " ", "+", "1">>,
                           lines |-> << [old_lineno |-> -1, new_lineno |-> 1,
                                         content |-> text] >>] >>],
            [old |-> <<"bin">>, new |-> <<"bin">>, binary |-> TRUE,
             hunks |-> <<>>] >>
    ELSE << [old |-> <<"README">>, new |-> <<"README">>, binary |-> FALSE,
             hunks |-> << [header |-> <<"@", "@", " ", "-", "1", " ", "+", "1">>,
                           lines |-> << [old_lineno |-> 1, new_lineno |-> 1,
                                         content |-> <<"c">>],
                                        [old_lineno |-> 2, new_lineno |-> -1,
                                         content |-> <<"o">>],
                                        [old_lineno |-> -1, new_lineno |-> 2,
                                         content |-> text] >>] >>] >>

\* git_diff_stats_to_buf(): one line per changed file, naming its path
RECURSIVE statsbuf(_, _)
statsbuf(diff, i) ==
    IF i > Len(diff) THEN <<>>
    ELSE <<" ">> \o diff[i].new \o <<" ", "|", "\n">> \o statsbuf(diff, i + 1)

(***************************************************************************)
(* commitinfo_getbyoid().                                                  *)
(***************************************************************************)
\* the NULL the function returns on failure
NoCI == [ok |-> FALSE]

\* git_commit_parent(): fails when the commit records no parent and when the
\* parent it records cannot be looked up
parent_found(lk) == lk.parentid # 0 /\ lk.parent

commitinfo_getbyoid(lk, id) ==
    IF ~lk.commit THEN NoCI
    ELSE IF ~lk.tree THEN NoCI
    ELSE IF parent_found(lk) /\ ~lk.parent_tree THEN NoCI
    ELSE IF ~lk.diff THEN NoCI
    ELSE IF ~lk.stats THEN NoCI
    ELSE [ok        |-> TRUE,
          id        |-> id,
          oid       |-> oidstr(id),
          parentoid |-> oidstr(lk.parentid),
          author    |-> Author(id),
          summary   |-> Summary(id),
          msg       |-> Msg(id),
          parent    |-> parent_found(lk),
          diff      |-> Diff(id, IF parent_found(lk) THEN "parent" ELSE "empty")]

(***************************************************************************)
(* The page shell.                                                         *)
(***************************************************************************)
\* writeheader(): what it writes with relpath = rp
writeheader(rp) ==
    << Lit("<!DOCTYPE html>...<title>"),
       Enc("stripped_name", stripped_name, strlen(stripped_name)) >>
    \o (IF description # <<>> THEN << Lit(" - ") >> ELSE <<>>)
    \o << Enc("description", description, strlen(description)),
          Lit("</title><link rel=icon href="), Rel(rp), Lit("favicon.png"),
          Lit("<link rel=alternate title="), Raw("name", name),
          Lit(" Atom Feed href="), Rel(rp), Lit("atom.xml"),
          Lit("<link rel=stylesheet href="), Rel(rp), Lit("style.css"),
          Lit("</head><body><table><tr><td>"),
          Lit("<a href=../"), Rel(rp), Lit("><img src="), Rel(rp),
          Lit("logo.png /></a>"),
          Lit("</td><td><h1>"),
          Enc("stripped_name", stripped_name, strlen(stripped_name)),
          Lit("</h1><span class=desc>"),
          Enc("description", description, strlen(description)),
          Lit("</span></td></tr>") >>
    \o (IF cloneurl # <<>>
        THEN << Lit("<tr class=url><td></td><td>git clone <a href="),
                Enc("cloneurl", cloneurl, strlen(cloneurl)),
                Lit(">"),
                Enc("cloneurl", cloneurl, strlen(cloneurl)),
                Lit("</a></td></tr>") >>
        ELSE <<>>)
    \o << Lit("<tr><td></td><td>"),
          Lit("<a href="), Rel(rp), Lit("log.html>Log</a> | "),
          Lit("<a href="), Rel(rp), Lit("files.html>Files</a> | "),
          Lit("<a href="), Rel(rp), Lit("refs.html>Refs</a>") >>
    \o (IF hasreadme
        THEN << Lit(" | <a href="), Rel(rp), Lit("file/README.html>README</a>") >>
        ELSE <<>>)
    \o (IF haslicense
        THEN << Lit(" | <a href="), Rel(rp), Lit("file/LICENSE.html>LICENSE</a>") >>
        ELSE <<>>)
    \o << Lit("</td></tr></table><hr/><div id=content>") >>

\* writefooter()
writefooter == << Lit("</div></body></html>") >>

(***************************************************************************)
(* The commit page.                                                        *)
(***************************************************************************)
\* printcommit(): the metadata block, with relpath = rp
printcommit(ci, rp) ==
    << Lit("<b>commit</b> <a href="), Rel(rp), Lit("commit/"),
       Raw("oid", ci.oid), Lit(".html>"), Raw("oid", ci.oid), Lit("</a>") >>
    \o (IF ci.parentoid # <<>>
        THEN << Lit("<b>parent</b> <a href="), Rel(rp), Lit("commit/"),
                Raw("oid", ci.parentoid), Lit(".html>"),
                Raw("oid", ci.parentoid), Lit("</a>") >>
        ELSE <<>>)
    \o << Lit("<b>Author:</b> "),
          Enc("author.name", ci.author.name, strlen(ci.author.name)),
          Lit(" &lt;<a href=mailto:"),
          Enc("author.email", ci.author.email, strlen(ci.author.email)),
          Lit(">"),
          Enc("author.email", ci.author.email, strlen(ci.author.email)),
          Lit("</a>&gt; <b>Date:</b> "), Raw("time", <<"T">>) >>
    \o << Lit("\n"), Enc("msg", ci.msg, strlen(ci.msg)), Lit("\n") >>

\* printshowfile(): the loop over k, the lines of hunk j (j and k count from 0)
RECURSIVE showlines(_, _, _)
showlines(lines, j, k) ==
    IF k + 1 > Len(lines) THEN <<>>
    ELSE LET line == lines[k + 1]
             id   == <<"h", ToString(j), "-", ToString(k)>>
         IN  (IF line.old_lineno = -1
              THEN << Lit("<a href=#"), Raw("anchor", id), Lit(" id="),
                      Raw("anchor", id), Lit(" class=i>+") >>
              ELSE IF line.new_lineno = -1
              THEN << Lit("<a href=#"), Raw("anchor", id), Lit(" id="),
                      Raw("anchor", id), Lit(" class=d>-") >>
              ELSE << Lit(" ") >>)
             \o << Enc("line", line.content, Len(line.content)) >>
             \o (IF line.old_lineno = -1 \/ line.new_lineno = -1
                 THEN << Lit("</a>") >>
                 ELSE <<>>)
             \o showlines(lines, j, k + 1)

\* printshowfile(): the loop over j, the hunks of a patch
RECURSIVE showhunks(_, _)
showhunks(hunks, j) ==
    IF j + 1 > Len(hunks) THEN <<>>
    ELSE LET hunk == hunks[j + 1]
             id   == <<"h", ToString(j)>>
         IN  << Lit("<a href=#"), Raw("anchor", id), Lit(" id="),
                Raw("anchor", id), Lit(" class=h>"),
                Enc("hunk", hunk.header, Len(hunk.header)), Lit("</a>") >>
             \o showlines(hunk.lines, j, 0)
             \o showhunks(hunks, j + 1)

\* printshowfile(): the loop over i, the deltas of the diff
RECURSIVE showdeltas(_, _, _)
showdeltas(diff, rp, i) ==
    IF i + 1 > Len(diff) THEN <<>>
    ELSE LET delta == diff[i + 1]
         IN  << Lit("<b>diff --git a/<a href="), Rel(rp), Lit("file/"),
                Raw("old_file.path", delta.old), Lit(".html>"),
                Raw("old_file.path", delta.old), Lit("</a> b/<a href="),
                Rel(rp), Lit("file/"),
                Raw("new_file.path", delta.new), Lit(".html>"),
                Raw("new_file.path", delta.new), Lit("</a></b>") >>
             \o (IF delta.binary
                 THEN << Lit("Binary files differ") >>
                 ELSE showhunks(delta.hunks, 0))
             \o showdeltas(diff, rp, i + 1)

\* printshowfile(): everything it writes to commit/<oid>.html
showfile(ci, rp) ==
    writeheader(rp)
    \o << Lit("<pre>") >>
    \o printcommit(ci, rp)
    \o (IF statsbuf(ci.diff, 1) # <<>>
        THEN << Lit("<b>Diffstat:</b>"),
                Enc("stats", statsbuf(ci.diff, 1), strlen(statsbuf(ci.diff, 1))) >>
        ELSE <<>>)
    \o << Lit("<hr/>") >>
    \o showdeltas(ci.diff, rp, 0)
    \o << Lit("</pre>") >>
    \o writefooter

\* printshowfile(): snprintf(path, "commit/%s.html", ci->oid)
commitpath(oid) == <<"commit", "/">> \o oid \o <<".html">>

(***************************************************************************)
(* The output directory.                                                   *)
(***************************************************************************)
\* a printshowfile without its check: no page is ever found to exist
exists_never(path) == FALSE

\* access(path, F_OK) = 0
exists(path) == path \in DOMAIN files

\* the directory a path lies in: <<>> is the output directory itself
RECURSIVE xdirname(_)
xdirname(path) ==
    IF path = <<>> THEN <<>>
    ELSE IF path[Len(path)] = "/" THEN SubSeq(path, 1, Len(path) - 1)
    ELSE xdirname(SubSeq(path, 1, Len(path) - 1))

\* fopen(path, "w") can succeed: the directory of the path exists
canopen(path) == xdirname(path) = <<>> \/ xdirname(path) \in dirs

\* fopen(path, "w") succeeded: the file exists and is empty
opened(fs, path) == (path :> <<>>) @@ fs

\* fputs and friends on the stream of path
written(fs, path, chunks) == [fs EXCEPT ![path] = @ \o chunks]

\* mkdirp(): the directories it tries to make, shortest first
mkdirp(d) ==
    { SubSeq(d, 1, i) : i \in { k \in 1 .. Len(d) : k = Len(d) \/ d[k + 1] = "/" } }

(***************************************************************************)
(* main(), up to the call of writelog.                                     *)
(***************************************************************************)
\* err(1, ...): the process ends with status 1
Fault ==
    /\ nfault < MaxFaults
    /\ nfault' = nfault + 1

Die ==
    /\ Fault
    /\ pc' = "exited"
    /\ status' = 1
    /\ iofail' = TRUE

\* writelog() line 446: the head of the table
loghead == << Lit("<table id=log><thead>...</thead><tbody>") >>

\* main() lines 862-943 and writelog() lines 441-448: HEAD is resolved (head
\* is the id of commit 1), log.html is opened, the header is written, commit/
\* is made (the result of mkdir is not looked at) and writelog is entered
StartRun ==
    /\ pc = "start"
    /\ files0' = files
    /\ returns' = {}
    /\ entry' = <<>>
    /\ UNCHANGED <<inputs, run, wi, fi, fret, refsvars>>
    /\ \/ /\ obj[1] = "missing"
          /\ pc' = "exited"
          /\ status' = 1
          /\ UNCHANGED <<relpath, files, dirs, iofail, nfault>>
       \/ /\ obj[1] # "missing"
          /\ Die
          /\ UNCHANGED <<relpath, files, dirs>>
       \/ /\ obj[1] # "missing"
          /\ relpath' = <<>>
          /\ files' = written(opened(files, <<"log.html">>), <<"log.html">>,
                              writeheader(<<>>) \o loghead)
          /\ pc' = "log"
          /\ status' = 0
          /\ \/ /\ dirs' = dirs \cup {<<"commit">>}
                /\ UNCHANGED <<iofail, nfault>>
             \/ /\ <<"commit">> \notin dirs
                /\ dirs' = dirs
                /\ iofail' = TRUE
                /\ Fault

(***************************************************************************)
(* writelog().                                                             *)
(***************************************************************************)
\* config.h: the length a summary is cut to in the log
summarylen == 3

\* writelog() lines 456-479: the row of a commit, with relpath = rp
logrow(ci, rp) ==
    << Lit("<tr><td>"), Raw("time", <<"T">>), Lit("</td><td>"),
       Lit("<a href="), Rel(rp), Lit("commit/"), Raw("oid", ci.oid),
       Lit(".html>") >>
    \o (IF strlen(ci.summary) > summarylen
        THEN << Enc("summary", ci.summary, summarylen - 1), Lit("...") >>
        ELSE << Enc("summary", ci.summary, strlen(ci.summary)) >>)
    \o << Lit("</a>"), Lit("</td><td>"),
          Enc("author.name", ci.author.name, strlen(ci.author.name)),
          Lit("</td><td class=num>"),
          Raw("filecount", <<ToString(Len(ci.diff))>>),
          Lit("</td><td class=num>+"), Raw("addcount", <<"n">>),
          Lit("</td><td class=num>-"), Raw("delcount", <<"n">>),
          Lit("</td></tr>") >>

\* printshowfile() lines 360-429: what is in the file when the writing of the
\* page is cut short: the page was opened, and at most its header has
\* reached the disk
partial(ci, rp) == { <<>>, writeheader(rp) }

\* writelog() lines 450-454: what a turn of the loop does with the snapshot
\* it got: without one the loop is left, with one the row is written
logturn(ci) == IF ~ci.ok THEN "break" ELSE "row"

\* one turn of the loop of writelog(): git_revwalk_next gave the id wi + 1
WriteLogStep ==
    /\ pc = "log"
    /\ wi < MaxCommits
    /\ LET id   == wi + 1
           log  == <<"log.html">>
           ci   == commitinfo_getbyoid(Lk(id), id)
           path == commitpath(ci.oid)
           fs1  == written(files, log, logrow(ci, <<>>))
       IN  /\ UNCHANGED <<inputs, run, dirs, fi, fret, refsvars, entry,
                          returns, files0>>
           /\ IF logturn(ci) = "break"
              THEN /\ pc' = "logend"
                   /\ relpath' = <<>>
                   /\ UNCHANGED <<wi, files, status, iofail, nfault>>
              ELSE \/ \* printshowfile(): the page exists and is skipped
                      /\ exists(path)
                      /\ files' = fs1
                      /\ relpath' = <<"../">>
                      /\ wi' = wi + 1
                      /\ UNCHANGED <<pc, status, iofail, nfault>>
                   \/ \* printshowfile(): the page is written
                      /\ ~exists(path)
                      /\ canopen(path)
                      /\ files' = written(opened(fs1, path), path,
                                          showfile(ci, <<"../">>))
                      /\ relpath' = <<"../">>
                      /\ wi' = wi + 1
                      /\ UNCHANGED <<pc, status, iofail, nfault>>
                   \/ \* printshowfile(): efopen fails, for want of commit/ or
                      \* for another reason
                      /\ ~exists(path)
                      /\ files' = fs1
                      /\ relpath' = <<"../">>
                      /\ pc' = "exited"
                      /\ status' = 1
                      /\ iofail' = TRUE
                      /\ \/ ~canopen(path) /\ UNCHANGED nfault
                         \/ canopen(path) /\ Fault
                      /\ UNCHANGED wi
                   \/ \* printshowfile(): a write to the page fails; the results
                      \* of fputs, fprintf and fclose are not looked at
                      /\ ~exists(path)
                      /\ canopen(path)
                      /\ \E part \in partial(ci, <<"../">>) :
                            files' = written(opened(fs1, path), path, part)
                      /\ relpath' = <<"../">>
                      /\ wi' = wi + 1
                      /\ iofail' = TRUE
                      /\ Fault
                      /\ UNCHANGED <<pc, status>>
                   \/ \* the process is killed while it writes the page
                      /\ ~exists(path)
                      /\ canopen(path)
                      /\ \E part \in partial(ci, <<"../">>) :
                            files' = written(opened(fs1, path), path, part)
                      /\ relpath' = <<"../">>
                      /\ pc' = "killed"
                      /\ Fault
                      /\ UNCHANGED <<wi, status, iofail>>

\* writelog() lines 486-492 and main() lines 944-945: the loop is over, the
\* table is closed, relpath is reset and writelog returns to main, which
\* writes the footer
WriteLogReturn ==
    /\ \/ pc = "log" /\ wi = MaxCommits
       \/ pc = "logend"
    /\ files' = written(files, <<"log.html">>,
                        << Lit("</tbody></table>") >> \o writefooter)
    /\ relpath' = <<>>
    /\ returns' = returns \cup
          { [fn |-> "writelog", entry |-> entry, exit |-> relpath', ret |-> 0] }
    /\ pc' = "main_files"
    /\ UNCHANGED <<inputs, status, run, dirs, wi, fi, fret, refsvars, entry,
                   iofail, nfault, files0>>

(***************************************************************************)
(* writefiles(), writefilestree(), writeblob().                            *)
(***************************************************************************)
\* config.h: whether the files table shows line counts
showlinecount == TRUE

\* writefilestree(): the entries in the order the recursion visits them;
\* a tree is replaced by the entries below it, with the path extended
RECURSIVE walk(_, _, _)
walk(tree, path, i) ==
    IF i > Len(tree) THEN <<>>
    ELSE LET e == tree[i]
             entrypath == path \o (IF path # <<>> THEN <<"/">> ELSE <<>>) \o e.name
         IN  (IF e.kind = "tree"
              THEN walk(e.sub, entrypath, 1)
              ELSE << [kind |-> e.kind, path |-> path, name |-> e.name,
                       entrypath |-> entrypath, binary |-> e.binary,
                       content |-> e.content] >>)
             \o walk(tree, path, i + 1)

\* writefilestree() lines 695-700: the page of a blob
filepath(path, entryname) ==
    IF path # <<>>
    THEN <<"file", "/">> \o path \o <<"/">> \o entryname \o <<".html">>
    ELSE <<"file", "/">> \o entryname \o <<".html">>

\* writeblob() lines 589-595: one "../" for each "/" of fpath
RECURSIVE updirs(_)
updirs(fpath) ==
    IF fpath = <<>> THEN <<>>
    ELSE (IF Head(fpath) = "/" THEN <<"../">> ELSE <<>>) \o updirs(Tail(fpath))

\* writeblobhtml(): the counter n, one line for each "\n" before the last byte
RECURSIVE linecount(_, _)
linecount(content, i) ==
    IF i > Len(content) - 1 THEN 0
    ELSE (IF content[i] = "\n" THEN 1 ELSE 0) + linecount(content, i + 1)

writeblobhtml_n(content) ==
    IF Len(content) # 0 THEN 1 + linecount(content, 1) ELSE 0

\* writeblobhtml(): the line numbers 1..n
RECURSIVE linenumbers(_, _)
linenumbers(n, k) ==
    IF k > n THEN <<>>
    ELSE << Raw("lineno", <<ToString(k)>>) >> \o linenumbers(n, k + 1)

writeblobhtml(content) ==
    << Lit("<table id=blob><tr><td class=num><pre>") >>
    \o linenumbers(writeblobhtml_n(content), 1)
    \o << Lit("</pre></td><td><pre>"),
          Enc("blob", content, Len(content)),
          Lit("</pre></td></tr></table>") >>

\* writeblob() lines 598-602: the page up to the content of the blob
blobhead(e, rp) ==
    writeheader(rp)
    \o << Lit("<p> "), Enc("filename", e.name, strlen(e.name)),
          Lit(" ("), Raw("filesize", <<ToString(Len(e.content))>>),
          Lit("B)"), Lit("</p><hr/>") >>

\* writeblob() lines 604-611: the content and the footer
blobbody(e) ==
    (IF e.binary THEN << Lit("<p>Binary file</p>") >> ELSE writeblobhtml(e.content))
    \o writefooter

\* writeblob(): the line count it returns
bloblc(e) == IF e.binary THEN 0 ELSE writeblobhtml_n(e.content)

\* writefilestree() lines 705-714: the row of a blob
filesrow(e, rp, lc) ==
    << Lit("<tr><td>"), Raw("filemode", <<"-rw-r--r--">>),
       Lit("</td><td><a href="), Rel(rp),
       Raw("filepath", filepath(e.path, e.name)), Lit(">"),
       Enc("entrypath", e.entrypath, strlen(e.entrypath)),
       Lit("</a></td><td class=num>") >>
    \o (IF showlinecount /\ lc > 0
        THEN << Raw("lc", <<ToString(lc)>>), Lit("L") >>
        ELSE << Raw("filesize", <<ToString(Len(e.content))>>), Lit("B") >>)
    \o << Lit("</td></tr>") >>

\* main() lines 945-950 and writefiles() lines 727-734: log.html is closed,
\* files.html is opened, the header and the head of the table are written,
\* and the commit of HEAD and its tree are looked up
MainFiles ==
    /\ pc = "main_files"
    /\ UNCHANGED <<inputs, run, dirs, relpath, wi, refsvars, returns, files0>>
    /\ \/ /\ Die
          /\ UNCHANGED <<files, fi, fret, entry>>
       \/ /\ files' = written(opened(files, <<"files.html">>), <<"files.html">>,
                              writeheader(relpath)
                              \o << Lit("<table id=files><thead>...</thead><tbody>") >>)
          /\ entry' = relpath
          /\ fi' = 0
          /\ IF obj[1] = "ok"
             THEN pc' = "files" /\ fret' = 0
             ELSE pc' = "filesend" /\ fret' = -1
          /\ UNCHANGED <<status, iofail, nfault>>

\* one turn of the loops of writefilestree(): the entry fi + 1 of the walk
WriteFilesEntry ==
    /\ pc = "files"
    /\ fi < Len(walk(HeadTree, <<>>, 1))
    /\ LET e     == walk(HeadTree, <<>>, 1)[fi + 1]
           list  == <<"files.html">>
           fpath == filepath(e.path, e.name)
           d     == xdirname(fpath)
           tmp   == updirs(fpath)
           ret(rp, lc) == [fn |-> "writeblob", entry |-> relpath, exit |-> rp,
                           ret |-> lc]
       IN  /\ UNCHANGED <<inputs, run, wi, refsvars, entry, files0>>
           /\ \/ \* git_tree_entry_to_object fails: return -1
                 /\ pc' = "filesend"
                 /\ fret' = -1
                 /\ Fault
                 /\ UNCHANGED <<fi, files, dirs, relpath, returns, status, iofail>>
              \/ \* neither a blob nor a tree: continue
                 /\ e.kind # "blob"
                 /\ fi' = fi + 1
                 /\ UNCHANGED <<pc, fret, files, dirs, relpath, returns, status,
                                iofail, nfault>>
              \/ \* writeblob(): mkdirp fails, writeblob returns -1, the row is written
                 /\ e.kind = "blob"
                 /\ \E q \in mkdirp(d) \ dirs :
                       dirs' = dirs \cup { r \in mkdirp(d) : Len(r) < Len(q) }
                 /\ files' = written(files, list, filesrow(e, relpath, -1))
                 /\ returns' = returns \cup { ret(relpath, -1) }
                 /\ iofail' = TRUE
                 /\ Fault
                 /\ fi' = fi + 1
                 /\ UNCHANGED <<pc, fret, relpath, status>>
              \/ \* writeblob(): efopen fails
                 /\ e.kind = "blob"
                 /\ dirs' = dirs \cup mkdirp(d)
                 /\ relpath' = tmp
                 /\ Die
                 /\ UNCHANGED <<fi, fret, files, returns>>
              \/ \* writeblob(): the stream has an error after writeblobhtml
                 /\ e.kind = "blob"
                 /\ ~e.binary
                 /\ dirs' = dirs \cup mkdirp(d)
                 /\ relpath' = tmp
                 /\ files' = written(opened(files, fpath), fpath, blobhead(e, tmp))
                 /\ Die
                 /\ UNCHANGED <<fi, fret, returns>>
              \/ \* writeblob() writes the page and returns, the row is written
                 /\ e.kind = "blob"
                 /\ dirs' = dirs \cup mkdirp(d)
                 /\ relpath' = <<>>
                 /\ files' = written(
                       written(opened(files, fpath), fpath,
                               blobhead(e, tmp) \o blobbody(e)),
                       list, filesrow(e, relpath', bloblc(e)))
                 /\ returns' = returns \cup { ret(relpath', bloblc(e)) }
                 /\ fi' = fi + 1
                 /\ UNCHANGED <<pc, fret, status, iofail, nfault>>

\* writefilestree() returns to writefiles(), which closes the table (lines
\* 736-742) and returns to main, which writes the footer
WriteFilesReturn ==
    /\ \/ pc = "files" /\ fi = Len(walk(HeadTree, <<>>, 1))
       \/ pc = "filesend"
    /\ files' = written(files, <<"files.html">>,
                        << Lit("</tbody></table>") >> \o writefooter)
    /\ returns' = returns \cup
          { [fn |-> "writefiles", entry |-> entry, exit |-> relpath,
             ret |-> fret] }
    /\ pc' = "main_refs"
    /\ UNCHANGED <<inputs, status, run, relpath, dirs, wi, fi, fret, refsvars,
                   entry, iofail, nfault, files0>>

(***************************************************************************)
(* writerefs().                                                            *)
(***************************************************************************)
\* the references the repository can hold.  class is what
\* git_reference_is_branch / git_reference_is_tag tell, type is
\* git_reference_type, fail the step of the resolution that fails for the
\* reference, target the commit it peels to, dname the shorthand of the
\* reference a symbolic reference resolves to
Ref(class, shorthand, type, fail, target, dname) ==
    [class |-> class, shorthand |-> shorthand, type |-> type, fail |-> fail,
     target |-> target, dname |-> dname]

RefUniverse ==
    { Ref("branch", <<"m">>, "oid", "none", 1, <<"m">>),
      Ref("branch", <<"a">>, "symbolic", "none", 1, <<"m">>),
      Ref("branch", <<"a">>, "symbolic", "resolve", 1, <<"m">>),
      Ref("tag", <<"a">>, "oid", "none", MaxCommits, <<"a">>),
      Ref("tag", <<"a">>, "oid", "peel", MaxCommits, <<"a">>),
      Ref("tag", <<"t", "<">>, "oid", "none", 1, <<"t", "<">>),
      Ref("tag", <<"m">>, "oid", "target", 1, <<"m">>),
      Ref("other", <<"o", "/", "m">>, "oid", "none", 1, <<"o", "/", "m">>) }

\* what git_reference_next can yield: up to MaxRefs references, no two with
\* the same full name
RefLists ==
    { l \in UNION { [1 .. n -> RefUniverse] : n \in 0 .. MaxRefs } :
        \A i, k \in DOMAIN l :
            i # k => <<l[i].class, l[i].shorthand>> # <<l[k].class, l[k].shorthand>> }

\* the value of a byte, for strcmp
Ord(c) ==
    CASE c = "/" -> 47
      [] c = "<" -> 60
      [] c = "a" -> 97
      [] c = "m" -> 109
      [] c = "o" -> 111
      [] c = "t" -> 116

\* strcmp(3): the difference of the first bytes that differ, the end of a
\* string being the byte 0
RECURSIVE strcmp(_, _)
strcmp(a, b) ==
    IF a = <<>> /\ b = <<>> THEN 0
    ELSE IF a = <<>> THEN 0 - Ord(Head(b))
    ELSE IF b = <<>> THEN Ord(Head(a))
    ELSE IF Head(a) # Head(b) THEN Ord(Head(a)) - Ord(Head(b))
    ELSE strcmp(Tail(a), Tail(b))

git_reference_is_branch(r) == IF r.class = "branch" THEN 1 ELSE 0

git_reference_is_tag(r) == IF r.class = "tag" THEN 1 ELSE 0

\* refs_cmp()
refs_cmp(r1, r2) ==
    LET t1 == git_reference_is_branch(r1)
        t2 == git_reference_is_branch(r2)
    IN  IF t1 # t2 THEN t1 - t2
        ELSE strcmp(r1.shorthand, r2.shorthand)

\* qsort(3) with refs_cmp: the array in the order of the comparator
RECURSIVE insert(_, _)
insert(r, a) ==
    IF a = <<>> THEN <<r>>
    ELSE IF refs_cmp(r, Head(a)) <= 0 THEN <<r>> \o a
    ELSE <<Head(a)>> \o insert(r, Tail(a))

RECURSIVE qsort(_)
qsort(a) == IF a = <<>> THEN <<>> ELSE insert(Head(a), qsort(Tail(a)))

\* a writerefs that does not look at the result of git_reference_peel
refturn_nopeel(r, j, ci) ==
    IF ~(r.class = "branch" /\ j = 0) /\ ~(r.class = "tag" /\ j = 1)
    THEN "continue"
    ELSE IF r.type = "symbolic" /\ r.fail = "resolve" THEN "err"
    ELSE IF r.type \notin {"symbolic", "oid"} THEN "continue"
    ELSE IF r.fail = "target" THEN "err"
    ELSE IF ~ci.ok THEN "break"
    ELSE "row"

\* writerefs() lines 792-815: what a turn of the inner loop does with
\* refs[i] in the pass j, ci being the snapshot of the commit it peels to
refturn(r, j, ci) ==
    IF ~(git_reference_is_branch(r) = 1 /\ j = 0) /\
       ~(git_reference_is_tag(r) = 1 /\ j = 1)
    THEN "continue"
    ELSE IF r.type = "symbolic" /\ r.fail = "resolve" THEN "err"
    ELSE IF r.type \notin {"symbolic", "oid"} THEN "continue"
    ELSE IF r.fail = "target" THEN "err"
    ELSE IF r.fail = "peel" THEN "err"
    ELSE IF ~ci.ok THEN "break"
    ELSE "row"

\* writerefs() lines 818-822: the head of the table of the pass j
refshead(j) ==
    IF j = 0
    THEN << Lit("<h2>Branches</h2><table id=branches><thead>...Branch...</thead><tbody>") >>
    ELSE << Lit("<h2>Tags</h2><table id=tags><thead>...Tag...</thead><tbody>") >>

\* writerefs() lines 825-835: the row of a reference
refsrow(r, ci) ==
    << Lit("<tr><td>"), Enc("shorthand", r.dname, strlen(r.dname)),
       Lit("</td><td>"), Raw("time", <<"T">>), Lit("</td><td>"),
       Enc("author.name", ci.author.name, strlen(ci.author.name)),
       Lit("</td></tr>") >>

\* main() lines 951-957 and writerefs() lines 777-788: files.html is closed,
\* refs.html is opened, the header is written, the references are collected
\* and sorted
MainRefs ==
    /\ pc = "main_refs"
    /\ UNCHANGED <<inputs, run, dirs, relpath, wi, fi, fret, files0>>
    /\ \/ /\ Die
          /\ UNCHANGED <<files, refsvars, entry, returns>>
       \/ \* git_reference_iterator_new fails: return -1
          /\ files' = written(opened(files, <<"refs.html">>), <<"refs.html">>,
                              writeheader(relpath) \o writefooter)
          /\ returns' = returns \cup
                { [fn |-> "writerefs", entry |-> relpath, exit |-> relpath,
                   ret |-> -1] }
          /\ pc' = "main_atom"
          /\ Fault
          /\ UNCHANGED <<refsvars, entry, status, iofail>>
       \/ /\ files' = written(opened(files, <<"refs.html">>), <<"refs.html">>,
                              writeheader(relpath))
          /\ entry' = relpath
          /\ refs' = qsort(reflist)
          /\ rj' = 0
          /\ ri' = 0
          /\ count' = 0
          /\ rrows' = <<>>
          /\ rfailed' = {}
          /\ pc' = "refs"
          /\ UNCHANGED <<returns, status, iofail, nfault>>

\* one turn of the inner loop of writerefs(): refs[ri] in the pass rj
WriteRefsStep ==
    /\ pc = "refs"
    /\ rj < 2
    /\ ri < Len(refs)
    /\ LET r    == refs[ri + 1]
           ci   == commitinfo_getbyoid(Lk(r.target), r.target)
           turn == refturn(r, rj, ci)
           page == <<"refs.html">>
       IN  /\ UNCHANGED <<inputs, status, run, dirs, wi, fi, fret, refs, rj,
                          entry, returns, iofail, nfault, files0>>
           /\ IF turn = "continue"
              THEN /\ ri' = ri + 1
                   /\ UNCHANGED <<pc, files, relpath, count, rrows, rfailed>>
              ELSE IF turn = "err"
              THEN /\ pc' = "refserr"
                   /\ rfailed' = rfailed \cup { [ref |-> r, rows |-> Len(rrows)] }
                   /\ UNCHANGED <<ri, files, relpath, count, rrows>>
              ELSE IF turn = "break"
              THEN /\ pc' = "refsbreak"
                   /\ rfailed' = rfailed \cup { [ref |-> r, rows |-> Len(rrows)] }
                   /\ UNCHANGED <<ri, files, relpath, count, rrows>>
              ELSE /\ count' = count + 1
                   /\ files' = written(files, page,
                                (IF count' = 1 THEN refshead(rj) ELSE <<>>)
                                \o refsrow(r, ci))
                   /\ relpath' = <<"../">>
                   /\ rrows' = Append(rrows, r)
                   /\ ri' = ri + 1
                   /\ UNCHANGED <<pc, rfailed>>

\* writerefs() lines 845-848: the inner loop is over or was left by break;
\* the table is closed and the next pass begins
WriteRefsPassEnd ==
    /\ \/ pc = "refs" /\ rj < 2 /\ ri = Len(refs)
       \/ pc = "refsbreak"
    /\ files' = IF count > 0
                THEN written(files, <<"refs.html">>, << Lit("</tbody></table><br/>") >>)
                ELSE files
    /\ rj' = rj + 1
    /\ ri' = 0
    /\ count' = 0
    /\ pc' = "refs"
    /\ UNCHANGED <<inputs, status, run, dirs, relpath, wi, fi, fret, refs,
                   rrows, rfailed, entry, returns, iofail, nfault, files0>>

\* writerefs() line 858: the value writerefs returns after the loops and
\* after the label err
refsret(p) == 0

\* writerefs() lines 850-858 and main() lines 958-959: both passes are over,
\* or a goto err was taken; writerefs returns and main writes the footer
WriteRefsReturn ==
    /\ \/ pc = "refs" /\ rj = 2
       \/ pc = "refserr"
    /\ files' = written(files, <<"refs.html">>, writefooter)
    /\ returns' = returns \cup
          { [fn |-> "writerefs", entry |-> entry, exit |-> relpath,
             ret |-> refsret(pc)] }
    /\ pc' = "main_atom"
    /\ UNCHANGED <<inputs, status, run, dirs, relpath, wi, fi, fret, refsvars,
                   entry, iofail, nfault, files0>>

(***************************************************************************)
(* writeatom().                                                            *)
(***************************************************************************)
\* writeatom() line 546: the most entries the feed gets
m == 100

\* printcommitatom()
printcommitatom(ci) ==
    << Lit("<entry>"), Lit("<id>"), Raw("oid", ci.oid), Lit("</id>"),
       Lit("<updated>"), Raw("time", <<"T">>), Lit("</updated>"),
       Lit("<title type=text>"),
       Enc("summary", ci.summary, strlen(ci.summary)), Lit("</title>"),
       Lit("<content type=text>"), Lit("commit "), Raw("oid", ci.oid) >>
    \o (IF ci.parentoid # <<>>
        THEN << Lit("parent "), Raw("oid", ci.parentoid) >>
        ELSE <<>>)
    \o << Lit("Author: "),
          Enc("author.name", ci.author.name, strlen(ci.author.name)),
          Lit(" &lt;"),
          Enc("author.email", ci.author.email, strlen(ci.author.email)),
          Lit("&gt; Date: "), Raw("time", <<"T">>),
          Lit("\n"), Enc("msg", ci.msg, strlen(ci.msg)),
          Lit("</content>"), Lit("<author><name>"),
          Enc("author.name", ci.author.name, strlen(ci.author.name)),
          Lit("</name><email>"),
          Enc("author.email", ci.author.email, strlen(ci.author.email)),
          Lit("</email></author>"), Lit("</entry>") >>

\* writeatom() lines 560-565: the loop over the walk, i counting from 0
RECURSIVE atomentries(_)
atomentries(i) ==
    IF ~(i < m) \/ ~(i < MaxCommits) THEN <<>>
    ELSE LET ci == commitinfo_getbyoid(Lk(i + 1), i + 1)
         IN  IF ~ci.ok THEN <<>>
             ELSE printcommitatom(ci) \o atomentries(i + 1)

\* writeatom()
writeatom ==
    << Lit("<?xml ...?><feed><title>"),
       Enc("stripped_name", stripped_name, strlen(stripped_name)),
       Lit(", branch HEAD</title><subtitle>"),
       Enc("description", description, strlen(description)),
       Lit("</subtitle>") >>
    \o atomentries(0)
    \o << Lit("</feed>") >>

\* main() lines 959-970: refs.html is closed, atom.xml is opened and written,
\* and main returns 0
MainAtom ==
    /\ pc = "main_atom"
    /\ UNCHANGED <<inputs, run, dirs, relpath, wi, fi, fret, refsvars, entry,
                   returns, files0>>
    /\ \/ /\ Die
          /\ UNCHANGED files
       \/ /\ files' = written(opened(files, <<"atom.xml">>), <<"atom.xml">>,
                              writeatom)
          /\ pc' = "exited"
          /\ status' = 0
          /\ UNCHANGED <<iofail, nfault>>

(***************************************************************************)
(* The program is run again on the same repository and output directory.   *)
(***************************************************************************)
Rerun ==
    /\ pc \in {"exited", "killed"}
    /\ run < MaxRuns
    /\ run' = run + 1
    /\ pc' = "start"
    /\ status' = 0
    /\ relpath' = <<>>
    /\ wi' = 0
    /\ fi' = 0
    /\ fret' = 0
    /\ refs' = <<>>
    /\ rj' = 0
    /\ ri' = 0
    /\ count' = 0
    /\ rrows' = <<>>
    /\ rfailed' = {}
    /\ entry' = <<>>
    /\ returns' = {}
    /\ iofail' = FALSE
    /\ UNCHANGED <<inputs, files, dirs, files0, nfault>>

(***************************************************************************)
(* The specification.                                                      *)
(***************************************************************************)
\* what is the same in every initial state: the process has not started and
\* the output directory is empty
InitProcess ==
    /\ status = 0
    /\ run = 1
    /\ relpath = <<>>
    /\ files = [x \in {} |-> <<>>]
    /\ dirs = {}
    /\ wi = 0
    /\ fi = 0
    /\ fret = 0
    /\ refs = <<>>
    /\ rj = 0
    /\ ri = 0
    /\ count = 0
    /\ rrows = <<>>
    /\ rfailed = {}
    /\ entry = <<>>
    /\ returns = {}
    /\ iofail = FALSE
    /\ nfault = 0
    /\ files0 = [x \in {} |-> <<>>]
    /\ enclen = 0
    /\ encout = <<>>

\* the references of the repositories the whole program is run on
HeadRefLists ==
    { <<>>,
      << Ref("tag", <<"t", "<">>, "oid", "none", 1, <<"t", "<">>),
         Ref("branch", <<"m">>, "oid", "none", 1, <<"m">>) >> }

\* the lookups of a commit that has everything
AllFound ==
    [commit |-> TRUE, tree |-> TRUE, parentid |-> 0, parent |-> FALSE,
     parent_tree |-> FALSE, diff |-> TRUE, stats |-> TRUE]

Init ==
    /\ \E in \in Inputs : repodir = in.repodir /\ text = in.text
    /\ obj \in ObjDbs
    /\ reflist \in HeadRefLists
    /\ lookups = AllFound
    /\ snapshot = NoCI
    /\ pc = "start"
    /\ InitProcess

Next ==
    \/ StartRun
    \/ WriteLogStep
    \/ WriteLogReturn
    \/ MainFiles
    \/ WriteFilesEntry
    \/ WriteFilesReturn
    \/ MainRefs
    \/ WriteRefsStep
    \/ WriteRefsPassEnd
    \/ WriteRefsReturn
    \/ MainAtom
    \/ Rerun

Spec == Init /\ [][Next]_vars

(***************************************************************************)
(* The whole program, run once without failures of the environment, on a   *)
(* repository with any references.                                         *)
(***************************************************************************)
InitRefs ==
    /\ repodir = <<"r", ".git">>
    /\ text = <<"a">>
    /\ obj \in ObjDbs
    /\ reflist \in RefLists
    /\ lookups = AllFound
    /\ snapshot = NoCI
    /\ pc = "start"
    /\ status = 0
    /\ run = MaxRuns
    /\ relpath = <<>>
    /\ files = [x \in {} |-> <<>>]
    /\ dirs = {}
    /\ wi = 0
    /\ fi = 0
    /\ fret = 0
    /\ refs = <<>>
    /\ rj = 0
    /\ ri = 0
    /\ count = 0
    /\ rrows = <<>>
    /\ rfailed = {}
    /\ entry = <<>>
    /\ returns = {}
    /\ iofail = FALSE
    /\ nfault = MaxFaults
    /\ files0 = [x \in {} |-> <<>>]
    /\ enclen = 0
    /\ encout = <<>>

NextRefs ==
    \/ StartRun
    \/ WriteLogStep
    \/ WriteLogReturn
    \/ MainFiles
    \/ WriteFilesEntry
    \/ WriteFilesReturn
    \/ MainRefs
    \/ WriteRefsStep
    \/ WriteRefsPassEnd
    \/ WriteRefsReturn
    \/ MainAtom

SpecRefs == InitRefs /\ [][NextRefs]_vars

(***************************************************************************)
(* commitinfo_getbyoid() alone, on a commit whose lookups succeed or fail  *)
(* in every combination.                                                   *)
(***************************************************************************)
\* what the lookups can give: parentid is the id the commit records as its
\* first parent, 0 when it records none
Lookups ==
    [commit : BOOLEAN, tree : BOOLEAN, parentid : {0, 2}, parent : BOOLEAN,
     parent_tree : BOOLEAN, diff : BOOLEAN, stats : BOOLEAN]

InitCI ==
    /\ repodir = <<"r", ".git">>
    /\ text = <<"a">>
    /\ obj = [c \in Chain |-> "ok"]
    /\ reflist = <<>>
    /\ lookups \in Lookups
    /\ snapshot = NoCI
    /\ pc = "call"
    /\ InitProcess

\* the call ci = commitinfo_getbyoid(id) for the commit 1
GetByOid ==
    /\ pc = "call"
    /\ snapshot' = commitinfo_getbyoid(lookups, 1)
    /\ pc' = "returned"
    /\ UNCHANGED <<repodir, text, obj, reflist, lookups, enclen, encout, status,
                   run, relpath, files, dirs, wi, fi, fret, refsvars, entry,
                   returns, iofail, nfault, files0>>

SpecCI == InitCI /\ [][GetByOid]_vars

(***************************************************************************)
(* xmlencode() alone, on every string over Bytes of at most MaxStr bytes   *)
(* and every len.                                                          *)
(***************************************************************************)
\* the bytes a string can hold: the five characters xmlencode replaces, the
\* other bytes of the entities "&lt;" and "&gt;", and the byte 0
Bytes == {"<", ">", "&", "'", "\"", "l", "t", ";", NUL}

\* the strings xmlencode is called on
Strings == UNION { [1 .. n -> Bytes] : n \in 0 .. MaxStr }

\* fputs(entity, fp) and fputc(*s, fp): the bytes that reach the stream for
\* what xmlencode emits for one byte of s
putbytes(e) ==
    CASE e = "&lt;"   -> <<"&", "l", "t", ";">>
      [] e = "&gt;"   -> <<"&", "g", "t", ";">>
      [] e = "&apos;" -> <<"&", "a", "p", "o", "s", ";">>
      [] e = "&amp;"  -> <<"&", "a", "m", "p", ";">>
      [] e = "&quot;" -> <<"&", "q", "u", "o", "t", ";">>
      [] OTHER        -> <<e>>

\* the stream after the calls of fputs and fputc: their bytes in order
RECURSIVE stream(_)
stream(out) ==
    IF out = <<>> THEN <<>> ELSE putbytes(Head(out)) \o stream(Tail(out))

InitEnc ==
    /\ repodir = <<"r", ".git">>
    /\ text \in Strings
    /\ obj = [c \in Chain |-> "ok"]
    /\ reflist = <<>>
    /\ lookups = AllFound
    /\ snapshot = NoCI
    /\ pc = "enc"
    /\ status = 0
    /\ run = 1
    /\ relpath = <<>>
    /\ files = [x \in {} |-> <<>>]
    /\ dirs = {}
    /\ wi = 0
    /\ fi = 0
    /\ fret = 0
    /\ refs = <<>>
    /\ rj = 0
    /\ ri = 0
    /\ count = 0
    /\ rrows = <<>>
    /\ rfailed = {}
    /\ entry = <<>>
    /\ returns = {}
    /\ iofail = FALSE
    /\ nfault = 0
    /\ files0 = [x \in {} |-> <<>>]
    /\ enclen \in 0 .. MaxStr + 1
    /\ encout = <<>>

\* the call xmlencode(fp, text, enclen)
XmlEncode ==
    /\ pc = "enc"
    /\ encout' = stream(xmlencode(text, enclen))
    /\ pc' = "encoded"
    /\ UNCHANGED <<repodir, text, obj, reflist, lookups, snapshot, enclen, status,
                   run, relpath, files, dirs, wi, fi, fret, refsvars, entry,
                   returns, iofail, nfault, files0>>

SpecEnc == InitEnc /\ [][XmlEncode]_vars

(***************************************************************************)
(* Definitions the claims share.                                           *)
(***************************************************************************)
\* the five characters xmlencode replaces
Reserved == {"<", ">", "&", "'", "\""}

\* the snapshot of commit c of the chain
SnapshotOf(c) == commitinfo_getbyoid(Lk(c), c)

\* the page of commit c
PageOf(c) == commitpath(oidstr(c))

\* the first commit of the walk whose snapshot cannot be built; MaxCommits + 1
\* when every snapshot can
FirstBroken ==
    IF \E c \in Chain : ~SnapshotOf(c).ok
    THEN CHOOSE c \in Chain :
            ~SnapshotOf(c).ok /\ \A d \in Chain : d < c => SnapshotOf(d).ok
    ELSE MaxCommits + 1

\* the rows of the commits 1 .. n of the log
RECURSIVE LogRows(_)
LogRows(n) ==
    IF n = 0 THEN <<>> ELSE LogRows(n - 1) \o logrow(SnapshotOf(n), <<>>)

\* writelog has returned in this run
LogReturned == \E r \in returns : r.fn = "writelog"

\* writerefs has returned in this run
RefsReturned == \E r \in returns : r.fn = "writerefs"

\* the run is over and main returned 0
Completed == pc = "exited" /\ status = 0

\* every step of the resolution of the reference succeeds: it is a branch or
\* a tag, it resolves, has a target, peels, and its commit has a snapshot
Resolves(r) ==
    /\ r.class \in {"branch", "tag"}
    /\ r.type \in {"symbolic", "oid"}
    /\ r.fail = "none"
    /\ SnapshotOf(r.target).ok

\* the references that got a row
Rows == { rrows[i] : i \in DOMAIN rrows }

(***************************************************************************)
(* The claims.                                                             *)
(***************************************************************************)
\* C1: whenever writelog, writeblob, writefiles or writerefs has returned,
\* relpath holds the value it had when the writer was called, and that value
\* is the empty prefix.
C1_RelpathRestored ==
    \A r \in returns : r.exit = r.entry /\ r.exit = <<>>

\* C2: every string that comes from the repository reaches a page through
\* xmlencode only: no chunk that an xmlencode or a %s conversion wrote holds a
\* raw <, >, &, ' or ".
C2_ContentEscaped ==
    \A path \in DOMAIN files :
        \A i \in DOMAIN files[path] :
            files[path][i].t \in {"enc", "raw"} =>
                \A k \in DOMAIN files[path][i].s :
                    files[path][i].s[k] \notin Reserved

\* C3: after any run that completes, whatever the output directory held
\* before, the page of every commit the log walk visited holds the complete
\* rendering of the commit.
C3_RunCompletesPages ==
    Completed =>
        \A c \in 1 .. wi :
            /\ PageOf(c) \in DOMAIN files
            /\ files[PageOf(c)] = showfile(SnapshotOf(c), <<"../">>)

\* C4: in writerefs a resolution failure for one reference aborts the whole
\* writer: no reference gets a row after it, and writerefs returns non-zero.
C4_RefsFailFast ==
    rfailed # {} =>
        /\ \A f \in rfailed : Len(rrows) = f.rows
        /\ \A r \in returns : r.fn = "writerefs" => r.ret # 0

C6_BranchesSortFirst ==
    \A i, k \in DOMAIN refs :
        i < k =>
            /\ refs[k].class = "branch" => refs[i].class = "branch"
            /\ (refs[i].class = "branch") = (refs[k].class = "branch") =>
                  strcmp(refs[i].shorthand, refs[k].shorthand) <= 0
            /\ refs[i].class = "branch" /\ refs[k].class # "branch" =>
                  refs_cmp(refs[i], refs[k]) < 0

\* C7: a failure to create or write output ends the run at once with a
\* non-zero exit status.
C7_OutputFailureIsFatal ==
    iofail => pc = "exited" /\ status # 0

\* C8: commitinfo_getbyoid returns a snapshot only when every lookup
\* succeeded: the commit, its tree, the parent and the tree of the parent
\* when the commit records a parent, the diff and the statistics.
C8_SnapshotNeedsEveryLookup ==
    (pc = "returned" /\ snapshot.ok) =>
        /\ lookups.commit
        /\ lookups.tree
        /\ lookups.parentid # 0 => lookups.parent /\ lookups.parent_tree
        /\ lookups.diff
        /\ lookups.stats

\* C9: after a run in which every commit lookup succeeds, every commit of
\* the chain has its page; a page that exists when a run starts is skipped,
\* so the run leaves it as it was.
C9_PagesExistAndStay ==
    /\ (Completed /\ \A c \in Chain : obj[c] = "ok") =>
          \A c \in Chain : PageOf(c) \in DOMAIN files
    /\ \A c \in Chain :
          PageOf(c) \in DOMAIN files0 =>
              /\ PageOf(c) \in DOMAIN files
              /\ files[PageOf(c)] = files0[PageOf(c)]

\* the case of C9: a second run completed on a repository whose lookups all
\* succeed, and the pages were there when it started
C9_Witness ==
    /\ Completed
    /\ run = 2
    /\ \A c \in Chain : obj[c] = "ok" /\ PageOf(c) \in DOMAIN files0

\* C10: when the snapshot of the k-th commit of the walk fails, the walk
\* halts there: the log holds the k-1 complete rows of the commits before it
\* and nothing of the k-th or a later commit, no page of the k-th or a later
\* commit is written, and the pages of the k-1 commits before it are
\* complete and are not modified.
C10_WalkHaltsAtBrokenCommit ==
    LET k      == FirstBroken
        log    == <<"log.html">>
        pre    == writeheader(<<>>) \o loghead
        end    == << Lit("</tbody></table>") >> \o writefooter
        halted == (pc = "logend" \/ LogReturned) /\ k <= MaxCommits
    IN  /\ wi < k
        /\ \A c \in Chain : c >= k => PageOf(c) \notin DOMAIN files
        /\ \A c \in 1 .. wi :
              PageOf(c) \in DOMAIN files0 => files[PageOf(c)] = files0[PageOf(c)]
        /\ halted =>
              /\ wi = k - 1
              /\ files[log] = pre \o LogRows(k - 1)
                              \o (IF LogReturned THEN end ELSE <<>>)
              /\ \A c \in 1 .. k - 1 :
                    /\ PageOf(c) \in DOMAIN files
                    /\ files[PageOf(c)] = showfile(SnapshotOf(c), <<"../">>)

\* printshowfile() lines 403 and 411-415: the positions of a page at which an
\* id attribute of an anchor is written
AnchorIds(page) ==
    { i \in DOMAIN page :
        /\ i > 1
        /\ page[i].f = "anchor"
        /\ page[i - 1] = Lit(" id=") }

\* C11: on a commit page no two hunks and no two added or removed lines
\* carry the same anchor id, also when the commit changes several files.
C11_AnchorsUnique ==
    \A c \in Chain :
        PageOf(c) \in DOMAIN files =>
            \A i, k \in AnchorIds(files[PageOf(c)]) :
                i # k => files[PageOf(c)][i].s # files[PageOf(c)][k].s

\* the five entities, as bytes, and the character each stands for
Entities ==
    { [e |-> <<"&", "l", "t", ";">>, c |-> "<"],
      [e |-> <<"&", "g", "t", ";">>, c |-> ">"],
      [e |-> <<"&", "a", "p", "o", "s", ";">>, c |-> "'"],
      [e |-> <<"&", "a", "m", "p", ";">>, c |-> "&"],
      [e |-> <<"&", "q", "u", "o", "t", ";">>, c |-> "\""] }

\* the entity that begins at position k of the bytes b, if there is one
EntityAt(b, k) ==
    { x \in Entities :
        /\ k + Len(x.e) - 1 <= Len(b)
        /\ SubSeq(b, k, k + Len(x.e) - 1) = x.e }

\* unescaping the five entities, in one pass from the left
RECURSIVE unescapeFrom(_, _)
unescapeFrom(b, k) ==
    IF k > Len(b) THEN <<>>
    ELSE IF EntityAt(b, k) # {}
    THEN LET x == CHOOSE y \in EntityAt(b, k) : TRUE
         IN  <<x.c>> \o unescapeFrom(b, k + Len(x.e))
    ELSE <<b[k]>> \o unescapeFrom(b, k + 1)

unescape(b) == unescapeFrom(b, 1)

\* the number of bytes of str before its first NUL; all of them without one
BeforeNul(str) ==
    Cardinality({ i \in DOMAIN str : \A k \in 1 .. i : str[k] # NUL })

\* C12: xmlencode emits the escaped form of exactly the first min(len, |s|)
\* bytes of s, |s| counting the bytes before the first NUL: none of the five
\* characters is left raw, every & begins one of the five entities, and
\* unescaping the entities gives back those bytes exactly.
C12_XmlencodeRoundTrip ==
    pc = "encoded" =>
        LET n == IF enclen < BeforeNul(text) THEN enclen ELSE BeforeNul(text)
        IN  /\ unescape(encout) = SubSeq(text, 1, n)
            /\ \A k \in DOMAIN encout :
                  /\ encout[k] \notin {"<", ">", "'", "\"", NUL}
                  /\ encout[k] = "&" => EntityAt(encout, k) # {}

\* the case of C12: the string that spells an entity was encoded whole
C12_Witness ==
    /\ pc = "encoded"
    /\ text = <<"&", "l", "t", ";">>
    /\ enclen = 4
    /\ encout = <<"&", "a", "m", "p", ";", "l", "t", ";">>

\* the prefix that leads from a page to the output root: one "../" for each
\* directory level of the path of the page
RECURSIVE Depth(_)
Depth(path) ==
    IF path = <<>> THEN <<>>
    ELSE (IF Head(path) = "/" THEN <<"../">> ELSE <<>>) \o Depth(Tail(path))

\* wherever a page holds a printed relpath (in its header and in its links),
\* the value printed is the prefix of the page
PrintedRelpathFits ==
    \A path \in DOMAIN files :
        \A i \in DOMAIN files[path] :
            files[path][i].t = "rel" => files[path][i].s = Depth(path)

\* C13: in a full run, whenever a page shell or a link is written, relpath
\* is the prefix of the page being written: "" for log.html, files.html and
\* refs.html, "../" for a commit page, one "../" per "/" for a file page.
\* The footers of log.html, files.html and refs.html are written by main
\* when writelog, writefiles and writerefs have just returned.
C13_RelpathFitsPage ==
    /\ PrintedRelpathFits
    /\ pc = "main_files" => relpath = Depth(<<"log.html">>)
    /\ pc = "main_refs" => relpath = Depth(<<"files.html">>)
    /\ pc = "main_atom" => relpath = Depth(<<"refs.html">>)

====
